---- MODULE Spec2Model ----
(***************************************************************************)
(* Model of the target documentation generator: the document parser        *)
(* (src/src/parse.rs), the resolution engine and the run of main            *)
(* (src/src/main.rs) and the marker splice and tier tables                  *)
(* (src/src/render.rs).                                                     *)
(*                                                                         *)
(* Text is a sequence of one-character strings, so that starts_with,        *)
(* strip_prefix, split, lines, trim and split_once are computed as the      *)
(* code computes them.  In the static files a piece of a sequence may also  *)
(* be a longer literal of the code (a marker half, a link prefix).          *)
(***************************************************************************)
EXTENDS Integers, Sequences, FiniteSets, TLC

VARIABLES
    \* ---- the run of main (src/src/main.rs)
    pc,             \* position of main: "resolve", "validate", "static", "done", "failed"
    targets,        \* the identifiers printed by rustc --print target-list
    info_patterns,  \* Vec<TargetPatternEntry>
    next_target,    \* index of the next identifier of the for loop of main
    info,           \* the TargetDocs of the last identifier resolved
    error,          \* the panic or Err that ended the run
    out_files,      \* the files written by this run, in the order of the writes
    targets_md,     \* the text of platform-support/targets.md on disk
    in_rust_lang_rust,  \* the RUST_LANG_RUST environment flag
    \* ---- parse_file (src/src/parse.rs)
    p_pc,           \* position of parse_file: "idle", "start", "scan", "done", "failed"
    content,        \* the text of the document
    frontmatter,    \* the decoded Frontmatter
    frontmatter_line_count,
    body_lines,     \* body.lines()
    idx,            \* index of the next line of the body (1-based)
    sections,       \* Vec<(String, String)>
    in_codeblock,   \* the fence flag
    p_error,        \* the Err returned by parse_file
    parsed,         \* the ParsedTargetInfoFile returned
    \* ---- replace_section (src/src/render.rs)
    r_pc,           \* "idle", "call", "ok", "err"
    prev_content,
    replacement,
    r_result,
    \* ---- render_table (src/src/render.rs)
    t_pc,           \* "idle", "call", "done"
    table_targets,  \* the TargetDocs given to render_table
    table,          \* the TierTable
    t_result        \* the text rendered

runVars == <<pc, targets, info_patterns, next_target, info, error, out_files,
             targets_md, in_rust_lang_rust>>
parseVars == <<p_pc, content, frontmatter, frontmatter_line_count, body_lines,
               idx, sections, in_codeblock, p_error, parsed>>
replaceVars == <<r_pc, prev_content, replacement, r_result>>
tableVars == <<t_pc, table_targets, table, t_result>>
vars == <<runVars, parseVars, replaceVars, tableVars>>

(***************************************************************************)
(* Bounds of the model.                                                    *)
(***************************************************************************)
MaxEntries == 3
MaxTargets == 2

(***************************************************************************)
(* Text helpers.                                                           *)
(***************************************************************************)
NL == "\n"

\* str::starts_with
StartsWith(s, prefix) ==
    /\ Len(s) >= Len(prefix)
    /\ SubSeq(s, 1, Len(prefix)) = prefix

\* the text after the first n pieces
Drop(s, n) == SubSeq(s, n + 1, Len(s))

\* a sequence without repetition
Injective(s) == \A i, j \in 1..Len(s) : i # j => s[i] # s[j]

\* the sequences over S of length at most n
SeqsUpTo(S, n) == UNION {[1..k -> S] : k \in 0..n}

\* the fixed section vocabulary
SECTIONS == <<
    <<"R","e","q","u","i","r","e","m","e","n","t","s">>,
    <<"T","e","s","t","i","n","g">>,
    <<"B","u","i","l","d","i","n","g">>,
    <<"C","r","o","s","s"," ","c","o","m","p","i","l","a","t","i","o","n">>,
    <<"B","u","i","l","d","i","n","g"," ","R","u","s","t"," ","p","r","o","g","r","a","m","s">> >>

Requirements == SECTIONS[1]
Testing == SECTIONS[2]
Building == SECTIONS[3]

\* slice::contains
Contains(seq, x) == \E i \in 1..Len(seq) : seq[i] = x

(***************************************************************************)
(* glob_match::glob_match, for patterns of literals, `?` and `*`, matched  *)
(* against the whole identifier.                                           *)
(***************************************************************************)
RECURSIVE glob_match(_, _)
glob_match(glob, path) ==
    IF glob = <<>> THEN path = <<>>
    ELSE IF Head(glob) = "*"
         THEN \/ glob_match(Tail(glob), path)
              \/ (path # <<>> /\ glob_match(glob, Tail(path)))
    ELSE IF path = <<>> THEN FALSE
    ELSE /\ (Head(glob) = "?" \/ Head(glob) = Head(path))
         /\ glob_match(Tail(glob), Tail(path))

(***************************************************************************)
(* replace_section: the marker splice.                                     *)
(***************************************************************************)
\* str::split_once: the text before and after the first occurrence of pat
split_once(s, pat) ==
    LET hits == {i \in 1..(Len(s) - Len(pat) + 1) :
                    SubSeq(s, i, i + Len(pat) - 1) = pat}
    IN  IF hits = {}
        THEN [found |-> FALSE, before |-> <<>>, after |-> <<>>]
        ELSE LET i == CHOOSE i \in hits : \A j \in hits : i <= j
             IN  [found |-> TRUE,
                  before |-> SubSeq(s, 1, i - 1),
                  after |-> Drop(s, i + Len(pat) - 1)]

\* format!("<!-- {section_name} SECTION START -->")
magic_summary_start(section_name) ==
    <<"<!-- ">> \o section_name \o <<" SECTION START -->">>

\* format!("<!-- {section_name} SECTION END -->")
magic_summary_end(section_name) ==
    <<"<!-- ">> \o section_name \o <<" SECTION END -->">>

\* a plausible slip: the end marker is looked for in the whole text
replace_section_EndAnywhere(prev, section_name, repl) ==
    LET first == split_once(prev, magic_summary_start(section_name))
        second == split_once(prev, magic_summary_end(section_name))
    IN  IF ~first.found \/ ~second.found
        THEN [ok |-> FALSE, text |-> <<>>]
        ELSE [ok |-> TRUE,
              text |-> first.before \o magic_summary_start(section_name)
                       \o <<NL>> \o repl \o <<NL>>
                       \o magic_summary_end(section_name) \o second.after]

replace_section(prev, section_name, repl) ==
    LET first == split_once(prev, magic_summary_start(section_name))
        second == split_once(first.after, magic_summary_end(section_name))
    IN  IF ~first.found \/ ~second.found
        THEN [ok |-> FALSE, text |-> <<>>]
        ELSE [ok |-> TRUE,
              text |-> first.before \o magic_summary_start(section_name)
                       \o <<NL>> \o repl \o <<NL>>
                       \o magic_summary_end(section_name) \o second.after]

(***************************************************************************)
(* The resolution engine: target_info.                                     *)
(***************************************************************************)
NoError == [kind |-> "none", detail |-> <<>>, at |-> 0]
NoDocs == [name |-> <<>>, maintainers |-> <<>>, sections |-> <<>>, tier |-> "-"]

\* the loop over the sections of one matching pattern (main.rs 245-250):
\* conflict is the index of the first section whose name is already there
\* a plausible slip: the contents are compared along with the names
SectionPresentByContent(acc, section) == \E i \in 1..Len(acc) : acc[i] = section

\* sections.iter().any(|(name, _)| name == section_name)
SectionPresent(acc, section) == \E i \in 1..Len(acc) : acc[i][1] = section[1]

RECURSIVE PushSections(_, _, _)
PushSections(acc, secs, k) ==
    IF k > Len(secs) THEN [sections |-> acc, conflict |-> 0]
    ELSE IF SectionPresent(acc, secs[k])
         THEN [sections |-> acc, conflict |-> k]
    ELSE PushSections(Append(acc, secs[k]), secs, k + 1)

\* a plausible slip: only a different tier value counts as a second source
TierConflictByValue(pattern_tier, tier) ==
    pattern_tier # "None" /\ tier # "None" /\ pattern_tier # tier

\* if let Some(pattern_value) = &target_pattern.tier { if tier.is_some() { panic!
TierConflict(pattern_tier, tier) == pattern_tier # "None" /\ tier # "None"

\* a plausible slip: a maintainer already in the list is not added again
extend_from_slice_Unique(v, slice) ==
    v \o SelectSeq(slice, LAMBDA x : \A q \in 1..Len(v) : v[q] # x)

\* maintainers.extend_from_slice(&target_pattern.maintainers)
extend_from_slice(v, slice) == v \o slice

\* a plausible slip: the flag is assigned the result of every match
SetUsedToMatch(entry, matched) == [entry EXCEPT !.used = matched]

\* if glob_match(..) { target_pattern.used = true; .. }
SetUsed(entry, matched) ==
    IF matched THEN [entry EXCEPT !.used = TRUE] ELSE entry

\* the loop over the patterns, from pattern k on, with the locals of target_info
RECURSIVE TargetInfoLoop(_, _, _, _, _, _)
TargetInfoLoop(pats, target, k, tier, maintainers, secs) ==
    IF k > Len(pats)
    THEN [info_patterns |-> pats, panic |-> NoError,
          docs |-> [name |-> target, maintainers |-> maintainers,
                    sections |-> secs,
                    tier |-> IF tier = "None" THEN "UNKNOWN" ELSE tier]]
    ELSE IF ~glob_match(pats[k].info.pattern, target)
         THEN TargetInfoLoop([pats EXCEPT ![k] = SetUsed(pats[k], FALSE)],
                             target, k + 1, tier, maintainers, secs)
    ELSE LET used == [pats EXCEPT ![k] = SetUsed(pats[k], TRUE)]
             e == pats[k].info
             pushed == PushSections(secs, e.sections, 1)
         IN  IF TierConflict(e.tier, tier)
             THEN [info_patterns |-> used, docs |-> NoDocs,
                   panic |-> [kind |-> "tier", detail |-> <<>>, at |-> k]]
             ELSE IF pushed.conflict # 0
             THEN [info_patterns |-> used, docs |-> NoDocs,
                   panic |-> [kind |-> "section",
                              detail |-> e.sections[pushed.conflict][1],
                              at |-> k]]
             ELSE TargetInfoLoop(used, target, k + 1,
                                 IF e.tier # "None" THEN e.tier ELSE tier,
                                 extend_from_slice(maintainers, e.maintainers),
                                 pushed.sections)

target_info(pats, target) == TargetInfoLoop(pats, target, 1, "None", <<>>, <<>>)

(***************************************************************************)
(* The run of main.                                                        *)
(***************************************************************************)
\* output_src/platform-support/targets/{target}.md
TargetFile(target) == <<"platform-support/targets/">> \o target \o <<".md">>
TargetsMdFile == <<"platform-support/targets.md">>
InformationFile == <<"targets/src/information.md">>

\* the body of the loop over the identifiers: resolve, render, write
ResolveTarget ==
    /\ pc = "resolve"
    /\ next_target <= Len(targets)
    /\ LET target == targets[next_target]
           r == target_info(info_patterns, target)
       IN  /\ info_patterns' = r.info_patterns
           /\ IF r.panic.kind # "none"
              THEN /\ pc' = "failed"
                   /\ error' = r.panic
                   /\ UNCHANGED <<info, out_files, next_target>>
              ELSE /\ info' = r.docs
                   /\ out_files' = Append(out_files,
                                          [file |-> TargetFile(target), doc |-> r.docs])
                   /\ next_target' = next_target + 1
                   /\ UNCHANGED <<pc, error>>
    /\ UNCHANGED <<targets, targets_md, in_rust_lang_rust>>
    /\ UNCHANGED <<parseVars, replaceVars, tableVars>>

\* a plausible slip: the loop looks at the first pattern only
FirstUnusedHeadOnly(pats) == IF Len(pats) > 0 /\ ~pats[1].used THEN 1 ELSE 0

\* the first pattern the validation loop bails on, 0 when there is none
FirstUnused(pats) ==
    IF \E k \in 1..Len(pats) : ~pats[k].used
    THEN CHOOSE k \in 1..Len(pats) :
            /\ ~pats[k].used
            /\ \A j \in 1..(k - 1) : pats[j].used
    ELSE 0

\* the validation loop of main
Validate ==
    /\ pc = "resolve"
    /\ next_target > Len(targets)
    /\ LET k == FirstUnused(info_patterns)
       IN  IF k # 0
           THEN /\ pc' = "failed"
                /\ error' = [kind |-> "unused",
                             detail |-> info_patterns[k].info.pattern, at |-> k]
           ELSE /\ pc' = "static"
                /\ UNCHANGED error
    /\ UNCHANGED <<targets, info_patterns, next_target, info, out_files,
                   targets_md, in_rust_lang_rust>>
    /\ UNCHANGED <<parseVars, replaceVars, tableVars>>

\* format!("- [{0}](targets/{0}.md)", target)
TargetListLine(target) == <<"- [">> \o target \o <<"](targets/">> \o target \o <<".md)">>

\* .collect::<Vec<_>>().join("\n") of the lines of the identifiers from k on
RECURSIVE TargetList(_, _)
TargetList(ts, k) ==
    IF k > Len(ts) THEN <<>>
    ELSE IF k = Len(ts) THEN TargetListLine(ts[k])
    ELSE TargetListLine(ts[k]) \o <<NL>> \o TargetList(ts, k + 1)

\* render_static of main.rs
RenderStatic ==
    /\ pc = "static"
    /\ IF ~targets_md.exists
       THEN /\ pc' = "failed"
            /\ error' = [kind |-> "read", detail |-> TargetsMdFile, at |-> 0]
            /\ UNCHANGED <<out_files, targets_md>>
       ELSE LET new_targets == replace_section(targets_md.text, <<"TARGET">>,
                                               TargetList(targets, 1))
            IN  IF ~new_targets.ok
                THEN /\ pc' = "failed"
                     /\ error' = [kind |-> "marker", detail |-> TargetsMdFile, at |-> 0]
                     /\ UNCHANGED <<out_files, targets_md>>
                ELSE /\ pc' = "done"
                     /\ targets_md' = [exists |-> TRUE, text |-> new_targets.text]
                     /\ out_files' =
                            out_files
                            \o <<[file |-> TargetsMdFile, doc |-> NoDocs]>>
                            \o (IF in_rust_lang_rust THEN <<>>
                                ELSE <<[file |-> InformationFile, doc |-> NoDocs]>>)
                     /\ UNCHANGED error
    /\ UNCHANGED <<targets, info_patterns, next_target, info, in_rust_lang_rust>>
    /\ UNCHANGED <<parseVars, replaceVars, tableVars>>

(***************************************************************************)
(* The inputs of a run: the identifiers, the documents of the input        *)
(* directory and the static file.                                          *)
(***************************************************************************)
Identifiers == {<<"a","b">>, <<"a","c">>, <<"b","c">>}

\* the file names of the input directory, without .md
PatternNames == {<<"a","*">>, <<"*","c">>, <<"a","?">>}

Footnote(name, text) == [name |-> name, content |-> text]

MetadataRule(pattern, footnotes) ==
    [pattern |-> pattern, notes |-> <<"n">>, std |-> "True", host |-> "Unknown",
     footnotes |-> footnotes]

\* what parse_file returns for the documents of the input directory,
\* without the pattern
FileInfos == {
    [tier |-> "None", maintainers |-> << <<"@","a">> >>, sections |-> <<>>,
     metadata |-> <<>>],
    [tier |-> "One", maintainers |-> << <<"@","a">> >>,
     sections |-> << <<Testing, <<"x">> >> >>, metadata |-> <<>>],
    [tier |-> "Two", maintainers |-> << <<"@","a">>, <<"b"," ","c">> >>,
     sections |-> << <<Building, <<"y">> >>, <<Testing, <<"z">> >> >>,
     metadata |-> << MetadataRule(<<"*">>, <<Footnote(<<"f">>, <<"t">>)>>) >>],
    [tier |-> "None", maintainers |-> << <<"d">> >>,
     sections |-> << <<Testing, <<>> >> >>,
     metadata |-> << MetadataRule(<<"z","?">>, <<>>) >>],
    [tier |-> "None", maintainers |-> <<>>,
     sections |-> << <<Requirements, <<"x">> >>, <<Requirements, <<"y">> >> >>,
     metadata |-> <<>>],
    [tier |-> "Three", maintainers |-> <<>>, sections |-> <<>>, metadata |-> <<>>] }

ParsedFile(pattern, fi) ==
    [pattern |-> pattern, tier |-> fi.tier, maintainers |-> fi.maintainers,
     sections |-> fi.sections, metadata |-> fi.metadata]

StartMarker == magic_summary_start(<<"TARGET">>)
EndMarker == magic_summary_end(<<"TARGET">>)

\* the states of platform-support/targets.md before the run
TargetsMdStates == {
    [exists |-> FALSE, text |-> <<>>],
    [exists |-> TRUE, text |-> <<"p", NL>> \o StartMarker \o <<NL, "o", NL>>
                               \o EndMarker \o <<NL, "q">>],
    [exists |-> TRUE, text |-> <<"p", NL>> \o EndMarker \o <<NL>> \o StartMarker] }

ParseIdle ==
    /\ p_pc = "idle"
    /\ content = <<>>
    /\ frontmatter = [ok |-> FALSE, tier |-> "None", maintainers |-> <<>>]
    /\ frontmatter_line_count = 0
    /\ body_lines = <<>>
    /\ idx = 0
    /\ sections = <<>>
    /\ in_codeblock = FALSE
    /\ p_error = NoError
    /\ parsed = [pattern |-> <<>>, tier |-> "None", maintainers |-> <<>>,
                 sections |-> <<>>, metadata |-> <<>>]

ReplaceIdle ==
    /\ r_pc = "idle"
    /\ prev_content = <<>>
    /\ replacement = <<>>
    /\ r_result = [ok |-> FALSE, text |-> <<>>]

TableIdle ==
    /\ t_pc = "idle"
    /\ table_targets = <<>>
    /\ table = [name |-> "TIER1HOST", include_std |-> FALSE, include_host |-> FALSE]
    /\ t_result = <<>>

RunIdle ==
    /\ pc = "idle"
    /\ targets = <<>>
    /\ info_patterns = <<>>
    /\ next_target = 0
    /\ info = NoDocs
    /\ error = NoError
    /\ out_files = <<>>
    /\ targets_md = [exists |-> FALSE, text |-> <<>>]
    /\ in_rust_lang_rust = FALSE

\* main, after load_target_infos and the target list: lines 33-60
Init ==
    /\ pc = "resolve"
    /\ targets \in {t \in SeqsUpTo(Identifiers, MaxTargets) : Injective(t)}
    /\ \E names \in {n \in SeqsUpTo(PatternNames, MaxEntries) : Injective(n)} :
        \E infos \in [1..Len(names) -> FileInfos] :
            info_patterns = [k \in 1..Len(names) |->
                                [info |-> ParsedFile(names[k], infos[k]),
                                 used |-> FALSE]]
    /\ next_target = 1
    /\ info = NoDocs
    /\ error = NoError
    /\ out_files = <<>>
    /\ targets_md \in TargetsMdStates
    /\ in_rust_lang_rust \in BOOLEAN
    /\ ParseIdle /\ ReplaceIdle /\ TableIdle

Next == ResolveTarget \/ Validate \/ RenderStatic

Spec == Init /\ [][Next]_vars

(***************************************************************************)
(* The document parser: parse_file.                                        *)
(***************************************************************************)
\* bound of the model: the lines of a document after its head
MaxBodyLines == 3

\* char::is_whitespace, for the characters of the model
IsWhitespace(c) == c \in {" ", NL, "\t", "\r"}

RECURSIVE TrimStart(_)
TrimStart(s) ==
    IF s # <<>> /\ IsWhitespace(Head(s)) THEN TrimStart(Tail(s)) ELSE s

RECURSIVE TrimEnd(_)
TrimEnd(s) ==
    IF s # <<>> /\ IsWhitespace(s[Len(s)])
    THEN TrimEnd(SubSeq(s, 1, Len(s) - 1))
    ELSE s

\* str::trim
Trim(s) == TrimEnd(TrimStart(s))

\* str::split: the pieces between the occurrences of pat
RECURSIVE Split(_, _)
Split(s, pat) ==
    LET r == split_once(s, pat)
    IN  IF r.found THEN <<r.before>> \o Split(r.after, pat) ELSE <<s>>

\* str::lines: the lines without their newline; no empty last line
RECURSIVE Lines(_)
Lines(s) ==
    IF s = <<>> THEN <<>>
    ELSE LET r == split_once(s, <<NL>>)
         IN  IF r.found THEN <<r.before>> \o Lines(r.after) ELSE <<s>>

Delimiter == <<"-","-","-">>
\* the backtick character (a string of the module cannot hold it)
Backtick == "BACKTICK"
FenceMarker == <<Backtick, Backtick, Backtick>>
HeadingPrefix == <<"#","#"," ">>

\* a frontmatter line `tier: "<v>"`
TierLine(v) == <<"t","i","e","r",":"," ","\"", v, "\"">>

\* the frontmatter line `maintainers: ["@a"]`
MaintainersLine ==
    <<"m","a","i","n","t","a","i","n","e","r","s",":"," ","[","\"","@","a","\"","]">>

\* #[serde(rename = "1")] One, "2" Two, "3" Three
TierOf(v) == IF v = "1" THEN "One" ELSE IF v = "2" THEN "Two" ELSE "Three"

BadFrontmatter == [ok |-> FALSE, tier |-> "None", maintainers |-> <<>>]

\* serde_yaml::from_str::<Frontmatter> on lines of the two forms above, from
\* line k on: a line of another form and a repeated field are errors, a line
\* that is blank or a YAML comment is skipped
RECURSIVE DecodeLines(_, _, _)
DecodeLines(ls, k, acc) ==
    IF k > Len(ls) THEN acc
    ELSE IF Trim(ls[k]) = <<>> \/ StartsWith(Trim(ls[k]), <<"#">>)
         THEN DecodeLines(ls, k + 1, acc)
    ELSE IF \E v \in {"1", "2", "3"} : ls[k] = TierLine(v)
         THEN IF acc.tier # "None" THEN BadFrontmatter
              ELSE DecodeLines(ls, k + 1,
                       [acc EXCEPT !.tier =
                           TierOf(CHOOSE v \in {"1", "2", "3"} : ls[k] = TierLine(v))])
    ELSE IF ls[k] = MaintainersLine
         THEN IF acc.maintainers # <<>> THEN BadFrontmatter
              ELSE DecodeLines(ls, k + 1,
                       [acc EXCEPT !.maintainers = << <<"@","a">> >>])
    ELSE BadFrontmatter

\* what serde_yaml may return for the frontmatter text.  A text without any
\* field is an empty YAML document, which serde_yaml accepts or rejects
\* depending on its version: both outcomes are kept.
DecodeFrontmatter(text) ==
    LET empty == [ok |-> TRUE, tier |-> "None", maintainers |-> <<>>]
        r == DecodeLines(Lines(text), 1, empty)
    IN  IF r = empty THEN {empty, BadFrontmatter} ELSE {r}

ParseError(kind, detail, number) == [kind |-> kind, detail |-> detail, at |-> number]

\* match sections.last_mut(): the line goes to the open section; without one
\* a blank line is dropped and any other line is an error
PushLine(secs, line, number) ==
    IF secs # <<>>
    THEN [sections |-> [secs EXCEPT ![Len(secs)][2] = @ \o line \o <<NL>>],
          error |-> NoError]
    ELSE IF Trim(line) = <<>>
         THEN [sections |-> secs, error |-> NoError]
    ELSE [sections |-> secs, error |-> ParseError("content", line, number)]

\* a plausible slip: the heading test comes before the fence test
ScanStepHeadingFirst(secs, codeblock, line, number) ==
    IF StartsWith(line, FenceMarker)
    THEN [sections |-> secs, in_codeblock |-> ~codeblock, error |-> NoError]
    ELSE IF StartsWith(line, HeadingPrefix) /\ Contains(SECTIONS, Drop(line, 3))
         THEN [sections |-> Append(secs, <<Drop(line, 3), <<>> >>),
               in_codeblock |-> codeblock, error |-> NoError]
    ELSE LET r == PushLine(secs, line, 0)
         IN  [sections |-> r.sections, in_codeblock |-> codeblock, error |-> r.error]

\* the body of the loop over body.lines(): parse.rs 115-149
ScanStep(secs, codeblock, line, number) ==
    IF StartsWith(line, FenceMarker)
    THEN [sections |-> secs, in_codeblock |-> ~codeblock, error |-> NoError]
    ELSE IF StartsWith(line, <<"#">>)
         THEN IF codeblock
              THEN LET r == PushLine(secs, line, number)
                   IN  [sections |-> r.sections, in_codeblock |-> codeblock,
                        error |-> r.error]
              ELSE IF StartsWith(line, HeadingPrefix)
                   THEN LET header == Drop(line, 3)
                        IN  IF ~Contains(SECTIONS, header)
                            THEN [sections |-> secs, in_codeblock |-> codeblock,
                                  error |-> ParseError("section name", header, number)]
                            ELSE [sections |-> Append(secs, <<header, <<>> >>),
                                  in_codeblock |-> codeblock, error |-> NoError]
              ELSE [sections |-> secs, in_codeblock |-> codeblock,
                    error |-> ParseError("heading", line, number)]
    ELSE LET r == PushLine(secs, line, 0)
         IN  [sections |-> r.sections, in_codeblock |-> codeblock, error |-> r.error]

\* section.1 = section.1.trim().to_owned(), for every section
TrimSections(secs) == [k \in 1..Len(secs) |-> <<secs[k][1], Trim(secs[k][2])>>]

\* the name parse_file is called with
DocumentName == <<"a","*">>

\* parse_file up to the loop: lines 90-111
ParseStart ==
    /\ p_pc = "start"
    /\ LET pieces == Split(content, Delimiter \o <<NL>>)
       IN  IF Len(pieces) < 2
           THEN /\ p_pc' = "failed"
                /\ p_error' = ParseError("missing frontmatter", <<>>, 0)
                /\ UNCHANGED <<frontmatter, frontmatter_line_count, body_lines, idx>>
           ELSE \E fm \in DecodeFrontmatter(pieces[2]) :
                /\ frontmatter_line_count' = Len(Lines(pieces[2])) + 2
                /\ frontmatter' = fm
                /\ IF ~fm.ok
                   THEN /\ p_pc' = "failed"
                        /\ p_error' = ParseError("invalid frontmatter", <<>>, 0)
                        /\ UNCHANGED <<body_lines, idx>>
                   ELSE IF Len(pieces) < 3
                   THEN /\ p_pc' = "failed"
                        /\ p_error' = ParseError("no body", <<>>, 0)
                        /\ UNCHANGED <<body_lines, idx>>
                   ELSE /\ p_pc' = "scan"
                        /\ body_lines' = Lines(pieces[3])
                        /\ idx' = 1
                        /\ UNCHANGED p_error
    /\ UNCHANGED <<content, sections, in_codeblock, parsed>>
    /\ UNCHANGED <<runVars, replaceVars, tableVars>>

\* one turn of the loop over the lines of the body: lines 113-150
ScanLine ==
    /\ p_pc = "scan"
    /\ idx <= Len(body_lines)
    /\ LET r == ScanStep(sections, in_codeblock, body_lines[idx],
                         frontmatter_line_count + idx)
       IN  /\ sections' = r.sections
           /\ in_codeblock' = r.in_codeblock
           /\ p_error' = r.error
           /\ IF r.error.kind # "none"
              THEN p_pc' = "failed" /\ UNCHANGED idx
              ELSE idx' = idx + 1 /\ UNCHANGED p_pc
    /\ UNCHANGED <<content, frontmatter, frontmatter_line_count, body_lines, parsed>>
    /\ UNCHANGED <<runVars, replaceVars, tableVars>>

\* parse_file after the loop: lines 152-162
ParseFinish ==
    /\ p_pc = "scan"
    /\ idx > Len(body_lines)
    /\ sections' = TrimSections(sections)
    /\ parsed' = [pattern |-> DocumentName, tier |-> frontmatter.tier,
                  maintainers |-> frontmatter.maintainers,
                  sections |-> TrimSections(sections), metadata |-> <<>>]
    /\ p_pc' = "done"
    /\ UNCHANGED <<content, frontmatter, frontmatter_line_count, body_lines, idx,
                   in_codeblock, p_error>>
    /\ UNCHANGED <<runVars, replaceVars, tableVars>>

\* the lines a document body is made of
BodyLineForms == {
    HeadingPrefix \o Testing,
    HeadingPrefix \o Building,
    HeadingPrefix \o <<"N","o">>,
    <<"#"," ","x">>,
    FenceMarker,
    <<"x">>,
    <<" ","y">>,
    <<>>,
    Delimiter }

\* the lines a document starts with
DocumentHeads == {
    <<Delimiter, TierLine("1"), Delimiter>>,
    << <<>>, Delimiter, Delimiter>>,
    <<Delimiter, MaintainersLine, <<"x",":"," ","1">>, Delimiter>>,
    <<Delimiter, TierLine("2")>>,
    <<>> }

\* the text of the lines from k on, each line followed by a newline
RECURSIVE JoinLines(_, _)
JoinLines(ls, k) ==
    IF k > Len(ls) THEN <<>> ELSE ls[k] \o <<NL>> \o JoinLines(ls, k + 1)

\* the text of the lines; the last line is without its newline when asked
DocumentText(ls, final_newline) ==
    IF final_newline \/ ls = <<>>
    THEN JoinLines(ls, 1)
    ELSE SubSeq(JoinLines(ls, 1), 1, Len(JoinLines(ls, 1)) - 1)

InitParse ==
    /\ p_pc = "start"
    /\ \E head \in DocumentHeads : \E body \in SeqsUpTo(BodyLineForms, MaxBodyLines) :
        \E final_newline \in BOOLEAN :
            content = DocumentText(head \o body, final_newline)
    /\ frontmatter = BadFrontmatter
    /\ frontmatter_line_count = 0
    /\ body_lines = <<>>
    /\ idx = 0
    /\ sections = <<>>
    /\ in_codeblock = FALSE
    /\ p_error = NoError
    /\ parsed = [pattern |-> <<>>, tier |-> "None", maintainers |-> <<>>,
                 sections |-> <<>>, metadata |-> <<>>]
    /\ RunIdle /\ ReplaceIdle /\ TableIdle

NextParse == ParseStart \/ ScanLine \/ ParseFinish

SpecParse == InitParse /\ [][NextParse]_vars

(***************************************************************************)
(* The marker splice on its own: replace_section on bounded texts.         *)
(***************************************************************************)
\* bound of the model: the chunks a static file is made of
MaxChunks == 4

\* the chunks of a static file: prose, the two markers, the start of a marker
Chunks == {<<"p">>, StartMarker, EndMarker, <<"<!-- ">>}

\* the replacements spliced in
Replacements == {<<>>, <<"r">>, <<"r", NL>> \o EndMarker}

RECURSIVE Flatten(_)
Flatten(chunks) ==
    IF chunks = <<>> THEN <<>> ELSE Head(chunks) \o Flatten(Tail(chunks))

ReplaceCall ==
    /\ r_pc = "call"
    /\ LET r == replace_section(prev_content, <<"TARGET">>, replacement)
       IN  /\ r_result' = r
           /\ r_pc' = IF r.ok THEN "ok" ELSE "err"
    /\ UNCHANGED <<prev_content, replacement>>
    /\ UNCHANGED <<runVars, parseVars, tableVars>>

InitReplace ==
    /\ r_pc = "call"
    /\ prev_content \in {Flatten(c) : c \in SeqsUpTo(Chunks, MaxChunks)}
    /\ replacement \in Replacements
    /\ r_result = [ok |-> FALSE, text |-> <<>>]
    /\ RunIdle /\ ParseIdle /\ TableIdle

NextReplace == ReplaceCall

SpecReplace == InitReplace /\ [][NextReplace]_vars

(***************************************************************************)
(* The tier tables: render_table.                                          *)
(***************************************************************************)
\* bound of the model: the identifiers given to render_table
MaxRows == 3

\* the tick glyph of render_table_tri_state_bool
CheckGlyph == "CHECK"

render_table_tri_state_bool(b) ==
    IF b = "True" THEN <<CheckGlyph>> ELSE IF b = "False" THEN <<" ">> ELSE <<"?">>

\* Footnote::reference
reference(footnote) == <<"[^">> \o footnote.name \o <<"]">>

\* TargetDocs::has_host_tools
has_host_tools(target) == target.metadata.some /\ target.metadata.host = "True"

\* the tables of render_platform_support_tables
TierTables == {
    [name |-> "TIER1HOST", include_std |-> FALSE, include_host |-> FALSE],
    [name |-> "TIER2HOST", include_std |-> FALSE, include_host |-> FALSE],
    [name |-> "TIER2", include_std |-> TRUE, include_host |-> FALSE],
    [name |-> "TIER3", include_std |-> TRUE, include_host |-> TRUE] }

\* (table.filter)(&target)
TableFilter(tbl, target) ==
    IF tbl.name = "TIER1HOST" THEN target.tier = "One"
    ELSE IF tbl.name = "TIER2HOST" THEN target.tier = "Two" /\ has_host_tools(target)
    ELSE IF tbl.name = "TIER2" THEN target.tier = "Two" /\ ~has_host_tools(target)
    ELSE target.tier = "Three"

\* the items from k on joined with sep
RECURSIVE Join(_, _, _)
Join(items, sep, k) ==
    IF k > Len(items) THEN <<>>
    ELSE IF k = Len(items) THEN items[k]
    ELSE items[k] \o sep \o Join(items, sep, k + 1)

\* the row of one identifier: render.rs 239-279
TableRow(tbl, target) ==
    LET meta == target.metadata
        refs == [k \in 1..Len(meta.footnotes) |-> reference(meta.footnotes[k])]
        notes == IF ~meta.some THEN <<"unknown">>
                 ELSE IF meta.footnotes # <<>>
                      THEN meta.notes \o <<" ">> \o Join(refs, <<" ">>, 1)
                 ELSE meta.notes
        std == IF tbl.include_std
               THEN <<" | ">> \o (IF meta.some THEN render_table_tri_state_bool(meta.std)
                                  ELSE <<"?">>)
               ELSE <<>>
        host == IF tbl.include_host
                THEN <<" | ">> \o (IF meta.some THEN render_table_tri_state_bool(meta.host)
                                   ELSE <<"?">>)
                ELSE <<>>
    IN  <<"[", Backtick>> \o target.name
        \o <<Backtick, "](platform-support/targets/">> \o target.name
        \o <<".md)">> \o std \o host \o <<" | ">> \o notes

\* the loop over the filtered identifiers, from k on: rows and all_footnotes
RECURSIVE TableLoop(_, _, _, _, _)
TableLoop(ts, tbl, k, rows, all_footnotes) ==
    IF k > Len(ts) THEN [rows |-> rows, all_footnotes |-> all_footnotes]
    ELSE IF ~TableFilter(tbl, ts[k]) THEN TableLoop(ts, tbl, k + 1, rows, all_footnotes)
    ELSE TableLoop(ts, tbl, k + 1, Append(rows, TableRow(tbl, ts[k])),
                   IF ts[k].metadata.some
                   THEN all_footnotes \o ts[k].metadata.footnotes
                   ELSE all_footnotes)

\* the footnote lines pushed after the rows, from k on
RECURSIVE FootnoteText(_, _)
FootnoteText(fs, k) ==
    IF k > Len(fs) THEN <<>>
    ELSE <<NL, NL>> \o reference(fs[k]) \o <<":", " ">> \o fs[k].content
         \o FootnoteText(fs, k + 1)

render_table(ts, tbl) ==
    LET r == TableLoop(ts, tbl, 1, <<>>, <<>>)
    IN  Join(r.rows, <<NL>>, 1) \o FootnoteText(r.all_footnotes, 1)

RenderTable ==
    /\ t_pc = "call"
    /\ t_result' = render_table(table_targets, table)
    /\ t_pc' = "done"
    /\ UNCHANGED <<table_targets, table>>
    /\ UNCHANGED <<runVars, parseVars, replaceVars>>

NoMetadata ==
    [some |-> FALSE, notes |-> <<>>, std |-> "Unknown", host |-> "Unknown",
     footnotes |-> <<>>]

Metadata(std, host, footnotes) ==
    [some |-> TRUE, notes |-> <<"n">>, std |-> std, host |-> host,
     footnotes |-> footnotes]

FootnoteF == Footnote(<<"f">>, <<"t">>)
FootnoteG == Footnote(<<"g">>, <<"u">>)

\* the tier and the metadata of the identifiers of a table
RowKinds == {
    [tier |-> "One", metadata |-> NoMetadata],
    [tier |-> "One", metadata |-> Metadata("True", "True", <<FootnoteF>>)],
    [tier |-> "One", metadata |-> Metadata("True", "False", <<FootnoteG, FootnoteF>>)],
    [tier |-> "Two", metadata |-> Metadata("True", "True", <<FootnoteF>>)],
    [tier |-> "Two", metadata |-> Metadata("False", "False", <<>>)],
    [tier |-> "Three", metadata |-> Metadata("Unknown", "False", <<FootnoteG>>)],
    [tier |-> "None", metadata |-> Metadata("True", "True", <<FootnoteF>>)] }

\* the names of the identifiers, by position in the list
RowNames == << <<"a">>, <<"b">>, <<"c">>, <<"d">>, <<"e">> >>

InitTable ==
    /\ t_pc = "call"
    /\ \E kinds \in SeqsUpTo(RowKinds, MaxRows) :
        table_targets = [k \in 1..Len(kinds) |->
                            [name |-> RowNames[k], tier |-> kinds[k].tier,
                             metadata |-> kinds[k].metadata]]
    /\ table \in TierTables
    /\ t_result = <<>>
    /\ RunIdle /\ ParseIdle /\ ReplaceIdle

NextTable == RenderTable

SpecTable == InitTable /\ [][NextTable]_vars

(***************************************************************************)
(* Properties of the resolution engine and of the run.                     *)
(***************************************************************************)
\* identifier number i has been resolved to a record
Resolved(i) == i \in 1..Len(targets) /\ i < next_target

\* target_info has panicked on identifier number i
Panicked(i) ==
    /\ i \in 1..Len(targets) /\ i = next_target
    /\ pc = "failed" /\ error.kind \in {"tier", "section"}

\* target_info has been run on identifier number i
Started(i) == Resolved(i) \/ Panicked(i)

Matches(k, i) == glob_match(info_patterns[k].info.pattern, targets[i])

SectionNames(k) ==
    {info_patterns[k].info.sections[q][1] :
        q \in 1..Len(info_patterns[k].info.sections)}

\* the first position of section s in pattern entry k
FirstPosition(k, s) ==
    CHOOSE q \in 1..Len(info_patterns[k].info.sections) :
        /\ info_patterns[k].info.sections[q][1] = s
        /\ \A r \in 1..(q - 1) : info_patterns[k].info.sections[r][1] # s

\* the entry that put section s into the record of identifier i, seen from
\* entry k, which declares s and matches
Contributor(i, k, s) ==
    CHOOSE m \in 1..k :
        /\ Matches(m, i) /\ s \in SectionNames(m)
        /\ \A n \in 1..(m - 1) : ~(Matches(n, i) /\ s \in SectionNames(n))

\* target_info has reported the conflict of section s between entries j and k
ConflictBetween(i, j, k, s) ==
    /\ Panicked(i)
    /\ error.kind = "section" /\ error.detail = s /\ error.at = k
    /\ Contributor(i, k, s) = j

\* the pairs of distinct entries that declare the same section name
SamePairs ==
    {<<j, k, s>> \in (1..Len(info_patterns)) \X (1..Len(info_patterns))
                     \X {SECTIONS[n] : n \in 1..Len(SECTIONS)} :
        j < k /\ s \in SectionNames(j) /\ s \in SectionNames(k)}

\* C1 as stated: whenever two distinct entries that declare the same section
\* both match the identifier, target_info fails with the conflict naming that
\* section; when at most one matches, no conflict between them is reported.
C1_AsStated ==
    \A i \in 1..Len(targets) : Started(i) =>
        \A p \in SamePairs :
            /\ (Matches(p[1], i) /\ Matches(p[2], i)) =>
                    (Panicked(i) /\ error.kind = "section" /\ error.detail = p[3])
            /\ ~(Matches(p[1], i) /\ Matches(p[2], i)) =>
                    ~ConflictBetween(i, p[1], p[2], p[3])

\* C1 amended: when both entries match, target_info fails no later than at
\* the second of them, and a section conflict raised at that entry names the
\* section or a section the entry lists before it (a tier conflict or an
\* earlier conflict may come first); when at most one matches, no conflict of
\* the section between the two is reported.
C1_SectionConflict ==
    \A i \in 1..Len(targets) : Started(i) =>
        \A p \in SamePairs :
            /\ (Matches(p[1], i) /\ Matches(p[2], i)) =>
                    /\ Panicked(i)
                    /\ error.at <= p[2]
                    /\ (error.at = p[2] /\ error.kind = "section") =>
                            \E q \in 1..FirstPosition(p[2], p[3]) :
                                error.detail = info_patterns[p[2]].info.sections[q][1]
            /\ ~(Matches(p[1], i) /\ Matches(p[2], i)) =>
                    ~ConflictBetween(i, p[1], p[2], p[3])

\* the conflict of a section between two matching entries has been reported
C1_Witness ==
    \E i \in 1..Len(targets) : \E p \in SamePairs :
        /\ Matches(p[1], i) /\ Matches(p[2], i)
        /\ ConflictBetween(i, p[1], p[2], p[3])
        /\ \E r \in SamePairs : ~(Matches(r[1], i) /\ Matches(r[2], i))

\* the entries that match identifier i and declare a tier
TierSources(i) ==
    {k \in 1..Len(info_patterns) : Matches(k, i) /\ info_patterns[k].info.tier # "None"}

\* the second entry, in iteration order, of a set of at least two entries
Second(S) == CHOOSE k \in S : Cardinality({j \in S : j < k}) = 1

\* C4 as stated: target_info fails with a tier conflict exactly when two or
\* more matching entries declare a tier; with one the record carries its
\* tier, with none the tier is UNKNOWN.
C4_AsStated ==
    \A i \in 1..Len(targets) : Started(i) =>
        /\ (Panicked(i) /\ error.kind = "tier") <=> Cardinality(TierSources(i)) >= 2
        /\ (Resolved(i) /\ Cardinality(TierSources(i)) = 1) =>
                \E k \in TierSources(i) :
                    out_files[i].doc.tier = info_patterns[k].info.tier
        /\ (Resolved(i) /\ TierSources(i) = {}) =>
                out_files[i].doc.tier = "UNKNOWN"

\* C4 amended: a tier conflict is reported only when two or more matching
\* entries declare a tier, and then at the second of them; whenever two or
\* more do, target_info fails, with the tier conflict unless a section
\* conflict is met at an earlier entry; a record that is returned carries the
\* tier of the one matching entry that declares one, and UNKNOWN when none does.
C4_TierConflict ==
    \A i \in 1..Len(targets) : Started(i) =>
        /\ (Panicked(i) /\ error.kind = "tier") =>
                /\ Cardinality(TierSources(i)) >= 2
                /\ error.at = Second(TierSources(i))
        /\ Cardinality(TierSources(i)) >= 2 =>
                /\ Panicked(i)
                /\ error.kind = "section" => error.at < Second(TierSources(i))
        /\ Resolved(i) =>
                /\ Cardinality(TierSources(i)) = 1 =>
                        \E k \in TierSources(i) :
                            out_files[i].doc.tier = info_patterns[k].info.tier
                /\ TierSources(i) = {} => out_files[i].doc.tier = "UNKNOWN"

\* a tier conflict has been reported, another identifier has taken its tier
\* from one entry
C4_Witness ==
    /\ \E i \in 1..Len(targets) :
            Panicked(i) /\ error.kind = "tier" /\ Cardinality(TierSources(i)) = 2
    /\ \E i \in 1..Len(targets) :
            Resolved(i) /\ Cardinality(TierSources(i)) = 1
                        /\ out_files[i].doc.tier # "UNKNOWN"

\* the validation loop of main has run
Validated ==
    \/ pc \in {"static", "done"}
    \/ pc = "failed" /\ error.kind \in {"unused", "read", "marker"}

MatchesNone(k) == \A i \in 1..Len(targets) : ~Matches(k, i)

\* C2: once every identifier is resolved, the validation fails exactly when
\* the pattern of some entry matched no identifier, and the entry it names
\* is one that matched none.
C2_UnusedPattern ==
    Validated =>
        /\ error.kind = "unused" <=> \E k \in 1..Len(info_patterns) : MatchesNone(k)
        /\ error.kind = "unused" => MatchesNone(error.at)

\* the validation has failed on an unused entry that follows a used one
C2_Witness ==
    /\ pc = "failed" /\ error.kind = "unused"
    /\ error.at > 1 /\ ~MatchesNone(1)
    /\ info_patterns[1].used /\ out_files # <<>>

\* C3: a run that ends in an error has written no output file.
C3_NoOutputOnError == pc = "failed" => out_files = <<>>

\* C10: a run ends successfully only if every nested MetadataRule of every
\* entry was used by an identifier that its entry and its nested pattern match.
C10_MetadataUsed ==
    pc = "done" =>
        \A k \in 1..Len(info_patterns) :
            \A m \in 1..Len(info_patterns[k].info.metadata) :
                \E i \in 1..Len(targets) :
                    /\ Matches(k, i)
                    /\ glob_match(info_patterns[k].info.metadata[m].pattern, targets[i])

(***************************************************************************)
(* Properties of parse_file.                                               *)
(***************************************************************************)
\* the loop is about to scan a line starting with `#` with the fence flag set
ScanningHashInFence ==
    /\ p_pc = "scan" /\ idx <= Len(body_lines)
    /\ in_codeblock
    /\ StartsWith(body_lines[idx], <<"#">>)

\* C5: a line starting with `#` that is scanned while the fence flag is true
\* opens no section and raises no heading error: the number of sections is
\* unchanged and the line, with its newline, is appended to the body of the
\* open section.
C5_HashInFence ==
    [][ScanningHashInFence =>
        /\ Len(sections') = Len(sections)
        /\ p_error'.kind \notin {"heading", "section name"}
        /\ sections # <<>> =>
            /\ p_error' = NoError
            /\ sections' = [sections EXCEPT ![Len(sections)][2] =
                                @ \o body_lines[idx] \o <<NL>>]]_vars

\* a `#` line has been scanned inside a fence and is the end of the body of
\* the open section
C5_Witness ==
    /\ p_pc = "scan" /\ idx > 1 /\ in_codeblock
    /\ StartsWith(body_lines[idx - 1], <<"#">>)
    /\ Len(sections) = 1
    /\ \E before \in {SubSeq(sections[1][2], 1, n) : n \in 0..Len(sections[1][2])} :
            sections[1][2] = before \o body_lines[idx - 1] \o <<NL>>

\* the positions of the lines of the document that are exactly `---`
DelimiterLines(ls) == {i \in 1..Len(ls) : ls[i] = Delimiter}

\* the lines of the document after its second `---` line
DocumentBody(text) ==
    LET ls == Lines(text)
        second == CHOOSE i \in DelimiterLines(ls) :
                      Cardinality({j \in DelimiterLines(ls) : j < i}) = 1
    IN  IF Cardinality(DelimiterLines(ls)) < 2 THEN <<>>
        ELSE SubSeq(ls, second + 1, Len(ls))

\* line i of ls is inside a fenced code block
InsideFence(ls, i) ==
    Cardinality({j \in 1..(i - 1) : StartsWith(ls[j], FenceMarker)}) % 2 = 1

\* line i of ls is `## ` followed by a name of the vocabulary
SectionHeading(ls, i) ==
    /\ StartsWith(ls[i], HeadingPrefix)
    /\ Contains(SECTIONS, Drop(ls[i], 3))

\* line i of ls is, outside a fence, a heading that is not a section heading
BadHeading(ls, i) ==
    /\ StartsWith(ls[i], <<"#">>)
    /\ ~InsideFence(ls, i)
    /\ ~SectionHeading(ls, i)

\* C6: no PatternEntry is returned for a document whose body holds, outside
\* a fenced code block, a `## ` heading of a name outside the vocabulary or a
\* heading of another level.
C6_BadHeadingFails ==
    p_pc = "done" =>
        \A i \in 1..Len(DocumentBody(content)) : ~BadHeading(DocumentBody(content), i)

\* the positions of the section headings of ls that are outside a fence
HeadingLines(ls) ==
    {i \in 1..Len(ls) : SectionHeading(ls, i) /\ ~InsideFence(ls, i)}

\* the n-th member of a set of positions, in increasing order
Nth(S, n) == CHOOSE i \in S : Cardinality({j \in S : j < i}) = n - 1

\* the sections of the lines ls as C8 describes them: one per heading, in the
\* order of the document, the body being the lines up to the next heading,
\* each with a newline, trimmed as a whole
DescribedSections(ls) ==
    LET hs == HeadingLines(ls)
    IN  [n \in 1..Cardinality(hs) |->
            LET from == Nth(hs, n)
                to == IF n < Cardinality(hs) THEN Nth(hs, n + 1) - 1 ELSE Len(ls)
            IN  <<Drop(ls[from], 3), Trim(JoinLines(SubSeq(ls, from + 1, to), 1))>>]

\* C8: for every accepted document the sections are returned in document
\* order, one per heading, each body being the text of the lines up to the
\* next section heading, fence lines included, each followed by a newline,
\* trimmed as a whole.
C8_SectionBodies ==
    p_pc = "done" => parsed.sections = DescribedSections(body_lines)

\* C11: in every PatternEntry returned by parse_file no section name occurs
\* more than once (so that one entry alone never conflicts with itself in
\* target_info).
C11_SectionNamesOnce ==
    p_pc = "done" =>
        \A a, b \in 1..Len(parsed.sections) :
            a # b => parsed.sections[a][1] # parsed.sections[b][1]

\* C12: for a document with at least two `---` lines the body that is
\* scanned is every line after the second `---` line, the lines after a
\* further `---` line included.  The `---` lines themselves are left out of
\* the comparison.
\* the lines of ls that are not `---` lines
TextLines(ls) == SelectSeq(ls, LAMBDA l : l # Delimiter)

C12_BodyAfterSecondDelimiter ==
    (p_pc \in {"scan", "done"} /\ Cardinality(DelimiterLines(Lines(content))) >= 2) =>
        TextLines(body_lines) = TextLines(DocumentBody(content))

(***************************************************************************)
(* Properties of replace_section.                                          *)
(***************************************************************************)
\* the positions at which pat occurs in s
Occurrences(s, pat) ==
    {i \in 1..(Len(s) - Len(pat) + 1) : SubSeq(s, i, i + Len(pat) - 1) = pat}

Least(S) == CHOOSE i \in S : \A j \in S : i <= j

\* the end markers that follow the first start marker of the text
EndsAfterStart(text) ==
    IF Occurrences(text, StartMarker) = {} THEN {}
    ELSE {j \in Occurrences(text, EndMarker) :
            j >= Least(Occurrences(text, StartMarker)) + Len(StartMarker)}

\* C7: replace_section fails when the start marker is absent or no end
\* marker follows it; otherwise the text returned is the text before the
\* start marker, the start marker, the replacement between two newlines, the
\* end marker and the text after the end marker.
C7_Splice ==
    r_pc \in {"ok", "err"} =>
        /\ r_pc = "err" <=> EndsAfterStart(prev_content) = {}
        /\ r_pc = "ok" =>
            LET i == Least(Occurrences(prev_content, StartMarker))
                j == Least(EndsAfterStart(prev_content))
                before == SubSeq(prev_content, 1, i - 1)
                after == Drop(prev_content, j + Len(EndMarker) - 1)
                out == r_result.text
            IN  /\ SubSeq(out, 1, i - 1) = before
                /\ Drop(out, Len(out) - Len(after)) = after
                /\ SubSeq(out, i, i + Len(StartMarker) - 1) = StartMarker
                /\ SubSeq(out, Len(out) - Len(after) - Len(EndMarker) + 1,
                          Len(out) - Len(after)) = EndMarker
                /\ SubSeq(out, i + Len(StartMarker),
                          Len(out) - Len(after) - Len(EndMarker))
                       = <<NL>> \o replacement \o <<NL>>

\* the empty replacement has been spliced into a text that has prose before
\* the start marker and after the end marker, and an end marker before the
\* start marker
C7_Witness ==
    /\ r_pc = "ok" /\ replacement = <<>>
    /\ Least(Occurrences(prev_content, StartMarker)) > 1
    /\ Least(Occurrences(prev_content, EndMarker))
            < Least(Occurrences(prev_content, StartMarker))
    /\ prev_content[Len(prev_content)] = "p"

(***************************************************************************)
(* Properties of render_table.                                             *)
(***************************************************************************)
\* the footnotes the rows of the table refer to, in the order of the rows
Referenced(ts, tbl) ==
    LET RECURSIVE From(_)
        From(k) ==
            IF k > Len(ts) THEN <<>>
            ELSE IF TableFilter(tbl, ts[k]) /\ ts[k].metadata.some
                 THEN ts[k].metadata.footnotes \o From(k + 1)
            ELSE From(k + 1)
    IN  From(1)

\* a sequence without the repetitions of its items, in first-seen order
FirstSeen(seq) ==
    LET RECURSIVE From(_, _)
        From(k, acc) ==
            IF k > Len(seq) THEN acc
            ELSE IF \E n \in 1..Len(acc) : acc[n] = seq[k] THEN From(k + 1, acc)
            ELSE From(k + 1, Append(acc, seq[k]))
    IN  From(1, <<>>)

\* the `marker: content` lines of a rendered table
FootnoteLines(text) ==
    SelectSeq(Lines(text), LAMBDA line : StartsWith(line, <<"[^">>))

\* C9: every footnote referenced by a row of the table appears exactly once
\* in the `marker: content` lines below the table, in the order of the first
\* references.
C9_FootnotesOnce ==
    t_pc = "done" =>
        LET fs == FirstSeen(Referenced(table_targets, table))
        IN  FootnoteLines(t_result) =
                [k \in 1..Len(fs) |-> reference(fs[k]) \o <<":", " ">> \o fs[k].content]

(***************************************************************************)
(* Properties of the maintainers list and of the used flags.               *)
(***************************************************************************)
\* the maintainers of the entries from k on whose pattern matches identifier
\* number i, in the order of the store
RECURSIVE MatchingMaintainers(_, _)
MatchingMaintainers(i, k) ==
    IF k > Len(info_patterns) THEN <<>>
    ELSE (IF Matches(k, i) THEN info_patterns[k].info.maintainers ELSE <<>>)
         \o MatchingMaintainers(i, k + 1)

\* C13: the maintainers list of every record returned by target_info is the
\* concatenation, in the order of the store, of the maintainers lists of
\* the entries whose pattern matches the identifier; nothing is dropped,
\* reordered or deduplicated and the other entries contribute nothing.
C13_Maintainers ==
    \A i \in 1..Len(targets) :
        Resolved(i) => out_files[i].doc.maintainers = MatchingMaintainers(i, 1)

\* a record built from two matching entries that name the same maintainer,
\* while a third entry with maintainers does not match
C13_Witness ==
    \E i \in 1..Len(targets) : \E j, k, n \in 1..Len(info_patterns) :
        /\ Resolved(i) /\ j < k
        /\ Matches(j, i) /\ Matches(k, i) /\ ~Matches(n, i)
        /\ info_patterns[n].info.maintainers # <<>>
        /\ \E a \in 1..Len(info_patterns[j].info.maintainers) :
           \E b \in 1..Len(info_patterns[k].info.maintainers) :
               info_patterns[j].info.maintainers[a]
                   = info_patterns[k].info.maintainers[b]
        /\ Len(out_files[i].doc.maintainers) >= 2

\* the store as main builds it, every flag false
Unused(pats) == [k \in 1..Len(pats) |-> [pats[k] EXCEPT !.used = FALSE]]

\* the store after target_info has run on the identifiers ts[n], ts[n+1], ..
RECURSIVE FlagsAfter(_, _, _)
FlagsAfter(pats, ts, n) ==
    IF n > Len(ts) THEN pats
    ELSE FlagsAfter(target_info(pats, ts[n]).info_patterns, ts, n + 1)

\* the orders in which n identifiers can be resolved
Orders(n) == {f \in [1..n -> 1..n] : Injective(f)}

\* C14, as stated: at every point of a resolution pass the used flag of an
\* entry is true exactly when its pattern matches at least one identifier
\* for which target_info has been started.
C14_AsStated ==
    \A k \in 1..Len(info_patterns) :
        info_patterns[k].used <=>
            \E i \in 1..Len(targets) : Started(i) /\ Matches(k, i)

\* a set flag has a started identifier that matches, and a returned record
\* has set the flag of every entry that matches its identifier
C14_FlagsOfStarted ==
    \A k \in 1..Len(info_patterns) :
        /\ info_patterns[k].used =>
               \E i \in 1..Len(targets) : Started(i) /\ Matches(k, i)
        /\ (\E i \in 1..Len(targets) : Resolved(i) /\ Matches(k, i)) =>
               info_patterns[k].used

\* while no resolution has failed, the flags are those of resolving the
\* identifiers resolved so far in any other order
C14_AnyOrder ==
    (\A i \in 1..Len(targets) : ~Panicked(i)) =>
        LET n == IF next_target > Len(targets) THEN Len(targets)
                 ELSE next_target - 1
        IN  \A f \in Orders(n) :
                FlagsAfter(Unused(info_patterns),
                           [q \in 1..n |-> targets[f[q]]], 1) = info_patterns

C14_NeverReset ==
    \A k \in 1..Len(info_patterns) :
        info_patterns[k].used => info_patterns'[k].used

\* C14: at every point of a resolution pass a used flag is true only if the
\* pattern matches an identifier for which target_info has been started,
\* and is true whenever the pattern matches an identifier for which
\* target_info has returned a record; a flag never goes from true back to
\* false; and the flags after resolving a set of identifiers are the same
\* for every order in which those identifiers are resolved.
C14_UsedFlags ==
    [](C14_FlagsOfStarted /\ C14_AnyOrder) /\ [][C14_NeverReset]_vars

\* two identifiers are resolved and an entry used by the first one does not
\* match the second one
C14_Witness ==
    /\ Resolved(1) /\ Resolved(2)
    /\ \E k \in 1..Len(info_patterns) :
           info_patterns[k].used /\ Matches(k, 1) /\ ~Matches(k, 2)

====
